---- MODULE Spec2Model ----
(***************************************************************************)
(* A model of imap_aex.py: one session of ImapAttachmentExtractor, from    *)
(* the `with` statement of main() to the end of __exit__.  The state is    *)
(* the configuration of the extractor, the folder on the server, the       *)
(* extraction directory, the run counters and the position of the run in   *)
(* extract(); every protocol command issued is appended to the log cmds.   *)
(***************************************************************************)
EXTENDS Integers, Sequences, FiniteSets, TLC

\* ------------------------------------------------------------------ bounds
\* Longest folder (number of messages) a run starts on.
MaxMsgs == 2
\* The size threshold max_size, scaled down; sizes range around it.
Threshold == 2

VARIABLES
    cfg,                \* the constructor's parameters
    mailbox,            \* the selected folder: sequence of messages, index = uid
    imap_state,         \* imaplib's IMAP4.state
    pc,                 \* position of the run
    dates,              \* extract()'s local `dates`
    to_fetch,           \* candidates still to be processed
    cur,                \* the message being replaced (uid, flags, new_mail, ...)
    files,              \* names present in the extraction directory
    extracted_nb,       \* self.extracted_nb
    extracted_from_nb,  \* self.extracted_from_nb
    extracted_size,     \* self.extracted_size
    cmds,               \* log: protocol commands issued, in order
    extractions,        \* log: one entry per extraction (lines 534-551)
    processed,          \* log: one entry per message fetched with status OK
    outcome,            \* how the run ended
    date_def,           \* parse_date's argument date_def, as characters
    parsed,             \* what parse_date(date_def, date_format) came to
    folder,             \* a folder name, as code points
    encoded,            \* what imaputf7encode(folder) came to
    decoded,            \* what imaputf7decode(encoded) came to
    mail_date,          \* the day one message of the folder is dated
    verdict,            \* whether SEARCH selects it and the local filter passes it
    fetch_data,         \* the response lines of the BODYSTRUCTURE fetch
    scanned,            \* what the scan of lines 347-383 made of them
    first               \* what the run before this one left, if there was one

\* the folder name through the codec of lines 717-755
codec == <<folder, encoded, decoded>>

\* one message against a date definition
filter == <<mail_date, verdict>>

\* the scan of the structure lines
scan == <<fetch_data, scanned>>

\* the arguments and the results of the functions checked on their own, and
\* the memory of an earlier run: what no step of a session changes
pure == <<date_def, parsed, codec, filter, scan, first>>

vars == <<cfg, mailbox, imap_state, pc, dates, to_fetch, cur, files,
          extracted_nb, extracted_from_nb, extracted_size, cmds, extractions,
          processed, outcome, pure>>

\* ------------------------------------------------------------- data model
max_size == Threshold
Sizes == (Threshold - 1)..(Threshold + 1)

NoName == [base |-> "", n |-> 0]
NoFile == [day |-> 0, nn |-> <<>>, name |-> NoName]
Declared(s) == [base |-> s, n |-> 0]

\* A MIME part as mail.walk() yields it.
Part(ctype, disp, size, marked, cte, ok, fname) ==
    [ctype |-> ctype, disp |-> disp, size |-> size, marked |-> marked,
     cte |-> cte, ok |-> ok, fname |-> fname, stub |-> FALSE, url |-> NoFile,
     child |-> FALSE]

Container(ctype) == Part(ctype, "", 0, FALSE, "", TRUE, NoName)
Text(ctype) == Part(ctype, "", 1, FALSE, "7bit", TRUE, NoName)
Att(size) == Part("application/pdf", "attachment", size, FALSE, "base64", TRUE, Declared("a"))
Detached(size) == [Att(size) EXCEPT !.marked = TRUE]
Undecodable(size) == [Att(size) EXCEPT !.ok = FALSE]
Unnamed(size) == Part("text/plain", "attachment", size, FALSE, "7bit", TRUE, NoName)
InlineImage == Part("image/png", "inline", Threshold + 1, FALSE, "base64", TRUE, Declared("i"))

Small == Threshold - 1
Large == Threshold + 1

\* mail.get("Date", None) of a message without a Date header
NoDate == 0

Msg(flags, day, parts) ==
    [flags |-> flags, day |-> day, parts |-> parts, exists |-> TRUE, src |-> 0]

\* a part that sits inside a multipart/alternative container
Child(part) == [part EXCEPT !.child = TRUE]

Mixed == Container("multipart/mixed")
Alternative ==
    <<Container("multipart/alternative"), Child(Text("text/plain")), Child(Text("text/html"))>>
\* an alternative that offers the plain text alone
PlainOnly == <<Container("multipart/alternative"), Child(Text("text/plain"))>>

MsgLib ==
    { Msg({}, 1, <<Mixed, Att(Small), Att(Large)>>),
      Msg({"\\Flagged"}, 1, <<Mixed>> \o Alternative \o <<Att(Large), Detached(Large)>>),
      Msg({"\\Seen"}, 2, <<Mixed, Att(Threshold), Unnamed(Large)>>),
      Msg({}, 2, <<Mixed>> \o PlainOnly
                   \o <<Detached(Small), Undecodable(Large), Att(Large), Unnamed(Large)>>),
      Msg({"\\Deleted"}, 1, <<Mixed, Att(Large)>>),
      Msg({}, NoDate, <<Mixed, Text("text/plain"), InlineImage>>) }

Mailboxes == UNION { [1..n -> MsgLib] : n \in 1..MaxMsgs }

FlaggedActions == {"skip", "extract", "detach"}

Configs ==
    [thunderbird_mode : BOOLEAN, flagged_action : FlaggedActions,
     extract_only : BOOLEAN, dry_run : BOOLEAN, debug : BOOLEAN]

\* The compiled date definition <<on, since, before>> in "ymd" form; 0 is None.
Unbound == <<-1, -1, -1>>
DateDefs == { <<1, 0, 0>>, <<0, 2, 0>>, <<0, 1, 2>> }

NoCur == [uid |-> 0, flags |-> {}, new_mail |-> <<>>, nb_extraction |-> 0]

Cmd(op, uid, st) == [op |-> op, uid |-> uid, st |-> st]

\* parse_date has not been called
NoDef == <<>>
Pending == [kind |-> "pending"]

\* the codec has not been called
CodecIdle == folder = <<>> /\ encoded = Pending /\ decoded = Pending

\* no message is looked at on its own, no structure line is scanned
FilterIdle == mail_date = <<>> /\ verdict = Pending
ScanIdle == fetch_data = <<>> /\ scanned = Pending

\* there was no run before this one
NoRun == [kind |-> "none"]

Init ==
    /\ cfg \in Configs
    /\ mailbox \in Mailboxes
    /\ imap_state = "NONAUTH"
    /\ pc = "start"
    /\ dates = Unbound
    /\ to_fetch = <<>>
    /\ cur = NoCur
    /\ files = {}
    /\ extracted_nb = 0
    /\ extracted_from_nb = 0
    /\ extracted_size = 0
    /\ cmds = <<>>
    /\ extractions = <<>>
    /\ processed = <<>>
    /\ outcome = "running"
    /\ date_def = NoDef
    /\ parsed = Pending
    /\ CodecIdle
    /\ FilterIdle
    /\ ScanIdle
    /\ first = NoRun


\* ------------------------------------------------- the per-message walk
IsMultipart(part) ==
    part.ctype \in {"multipart/mixed", "multipart/alternative", "multipart/related"}

\* part.get_content_disposition() starts with "attachment"
IsAttachment(part) == part.disp = "attachment"

\* IsDetached with the marker never recognised
IsDetached_Never(part) == FALSE

\* "AttachmentDetached" in part.get("X-Mozilla-Altered", "")
IsDetached(part) == part.marked

\* b64decode raises BinasciiError
DecodeFails(part) == part.cte = "base64" /\ ~part.ok

\* attachment_size < self.max_size: the attachment is left in the message
IsSmall(attachment_size) == attachment_size < max_size

\* SkipFlagged comparing with the wrong action
SkipFlagged_WrongAction(is_flagged) == is_flagged /\ cfg.flagged_action = "extract"

\* is_flagged and 'skip' == self.flagged_action
SkipFlagged(is_flagged) == is_flagged /\ cfg.flagged_action = "skip"

\* self.thunderbird_mode and ('detach' == self.flagged_action or not is_flagged)
MakesStub(is_flagged) ==
    cfg.thunderbird_mode /\ (cfg.flagged_action = "detach" \/ ~is_flagged)

\* ShouldReplace without the flagged-message policy
ShouldReplace_IgnoresFlagged(nb_extraction, is_flagged) ==
    nb_extraction > 0 /\ ~cfg.extract_only

\* nb_extraction > 0 and not self.extract_only and ('detach' == ... or not is_flagged)
ShouldReplace(nb_extraction, is_flagged) ==
    /\ nb_extraction > 0
    /\ ~cfg.extract_only
    /\ (cfg.flagged_action = "detach" \/ ~is_flagged)

\* ShouldStore without the test of self.debug
ShouldStore_IgnoresDebug == ~cfg.dry_run

\* the original is never marked \Deleted
ShouldStore_Never == FALSE

\* not self.debug and not self.dry_run
ShouldStore == ~cfg.debug /\ ~cfg.dry_run

\* the decimal digits of n, most significant first
RECURSIVE Digits(_)
Digits(n) == IF n < 10 THEN <<n>> ELSE Digits(n \div 10) \o <<n % 10>>

\* Format02d without the padding
Format02d_Unpadded(idx) == Digits(idx)

\* "%02d" % idx: at least two digits, padded with a zero
Format02d(idx) == IF idx < 10 THEN <<0, idx>> ELSE Digits(idx)

\* "%s - %s" % (date, name); from idx = 1 on the re.sub of line 538 puts
\* " (%02d)" % idx before the separator, replacing the one it finds there
FileName(day, idx, name) ==
    [day |-> day, nn |-> IF idx = 0 THEN <<>> ELSE Format02d(idx), name |-> name]

\* FreeName without the loop on os.path.exists
FreeName_Overwrite(day, name, dir) == FileName(day, 0, name)

\* idx = 0; while os.path.exists(filename): idx = idx + 1; filename = re.sub(...)
FreeName(day, name, dir) ==
    LET free(i) == FileName(day, i, name) \notin dir
        idx == CHOOSE i \in 0..Cardinality(dir) :
                    free(i) /\ \A j \in 0..(i - 1) : ~free(j)
    IN FileName(day, idx, name)

\* part.get_filename(), or "part.%d" % part_nb
AttachmentFilename(part, part_nb) ==
    IF part.fname = NoName THEN [base |-> "part.", n |-> part_nb] ELSE part.fname

\* new_part: the part's headers, Content-Transfer-Encoding emptied, the
\* external URL and the X-Mozilla-Altered marker added, the payload replaced
Stub(part, filename) ==
    [part EXCEPT !.cte = "", !.size = 0, !.marked = TRUE, !.stub = TRUE,
                 !.url = filename]

WalkInit ==
    [new_mail |-> <<>>, has_alternative |-> FALSE, nb_alternative |-> 0,
     nb_extraction |-> 0, part_nb |-> 1, files |-> files,
     extractions |-> extractions, extracted_nb |-> extracted_nb,
     extracted_size |-> extracted_size]

\* lines 534-570: write the file, count, replace the part by a stub
Extract(st, uid, pi, part, day, is_flagged) ==
    LET filename == FreeName(day, AttachmentFilename(part, st.part_nb), st.files)
        st2 == [st EXCEPT
                  !.files = IF cfg.dry_run THEN @ ELSE @ \cup {filename},
                  !.extractions = Append(@, [uid |-> uid, pi |-> pi,
                                             file |-> filename, size |-> part.size,
                                             dir |-> st.files,
                                             wrote |-> ~cfg.dry_run]),
                  !.extracted_nb = @ + 1,
                  !.extracted_size = @ + part.size,
                  !.nb_extraction = @ + 1]
    IN IF MakesStub(is_flagged)
       THEN [st2 EXCEPT !.new_mail = Append(@, Stub(part, filename))]
       ELSE st2

\* one iteration of `for part in mail.walk()`, lines 481-570
WalkPart(st, uid, pi, part, day, is_flagged) ==
    LET attach == [st EXCEPT !.new_mail = Append(@, part)] IN
    IF IsMultipart(part)
    THEN IF part.ctype = "multipart/alternative"
         THEN [attach EXCEPT !.has_alternative = TRUE]
         ELSE st
    ELSE IF st.has_alternative /\ st.nb_alternative < 2
            /\ part.ctype \in {"text/plain", "text/html"}
    THEN [st EXCEPT !.nb_alternative = @ + 1]
    ELSE IF ~IsAttachment(part)
    THEN attach
    ELSE LET st1 == [st EXCEPT !.part_nb = @ + 1] IN
         IF IsDetached(part) THEN st1
         ELSE IF DecodeFails(part) THEN [st1 EXCEPT !.new_mail = Append(@, part)]
         ELSE IF IsSmall(part.size) THEN [st1 EXCEPT !.new_mail = Append(@, part)]
         ELSE Extract(st1, uid, pi, part, day, is_flagged)

RECURSIVE WalkFrom(_, _, _, _, _, _)
WalkFrom(st, uid, pi, parts, day, is_flagged) ==
    IF pi > Len(parts) THEN st
    ELSE WalkFrom(WalkPart(st, uid, pi, parts[pi], day, is_flagged),
                  uid, pi + 1, parts, day, is_flagged)

Walk(uid, mail, is_flagged) ==
    WalkFrom(WalkInit, uid, 1, mail.parts, mail.day, is_flagged)

\* a filter that lets every message pass
DateOk_Always(check_date) == TRUE

\* the local post-filter on the Date header, lines 445-462
DateOk(check_date) ==
    IF dates[1] # 0 THEN check_date = dates[1]
    ELSE IF dates[2] # 0 /\ dates[3] = 0 THEN check_date >= dates[2]
    ELSE IF dates[3] # 0 /\ dates[2] = 0 THEN check_date <= dates[3]
    ELSE IF dates[2] # 0 /\ dates[3] # 0
         THEN dates[2] <= check_date /\ check_date <= dates[3]
    ELSE FALSE


\* ---------------------------------------------------------------- actions
Issue(op, uid, st) == cmds' = Append(cmds, Cmd(op, uid, st))

Counters == <<extracted_nb, extracted_from_nb, extracted_size>>

\* an exception leaves extract(); the `with` statement runs __exit__
Raise(kind) == pc' = "exit" /\ outcome' = kind

\* `continue` of the loop over to_fetch, or its end (lines 391, 619-631)
Continue ==
    /\ to_fetch' = Tail(to_fetch)
    /\ pc' = IF Len(to_fetch) > 1 THEN "fetch" ELSE "exit"
    /\ outcome' = IF Len(to_fetch) > 1 THEN outcome ELSE "finished"

\* __init__, lines 106-114: the exception leaves main() before the `with`
\* statement is entered; neither connect() nor __exit__ runs
ConstructError ==
    /\ pc = "start"
    /\ \E message \in {"Missing host and login configuration", "Wrong size"} :
         /\ pc' = "done"
         /\ outcome' = message
    /\ UNCHANGED <<pure, cfg, mailbox, imap_state, dates, to_fetch, cur, files,
                   extracted_nb, extracted_from_nb, extracted_size, cmds,
                   extractions, processed>>

\* connect(), called by __enter__: imaplib's login raises unless the status is OK
Connect ==
    /\ pc = "start"
    /\ \E status \in {"OK", "NO"} :
         /\ Issue("LOGIN", 0, status)
         /\ IF status = "OK"
            THEN imap_state' = "AUTH" /\ pc' = "entered" /\ outcome' = outcome
            ELSE imap_state' = imap_state /\ pc' = "done" /\ outcome' = "login_failed"
    /\ UNCHANGED <<pure, cfg, mailbox, dates, to_fetch, cur, files, extracted_nb,
                   extracted_from_nb, extracted_size, extractions, processed>>

\* main(): list_folders, then return
ListFolders ==
    /\ pc = "entered"
    /\ \E status \in {"OK", "NO"} :
         /\ Issue("LIST", 0, status)
         /\ pc' = "exit"
         /\ outcome' = IF status = "OK" THEN "listed" ELSE "RuntimeWarning"
    /\ UNCHANGED <<pure, cfg, mailbox, imap_state, dates, to_fetch, cur, files,
                   extracted_nb, extracted_from_nb, extracted_size, extractions,
                   processed>>

\* extract(), lines 281-299
Select ==
    /\ pc = "entered"
    /\ \E status \in {"OK", "NO"} :
         /\ Issue("SELECT", 0, status)
         /\ IF status = "OK"
            THEN imap_state' = "SELECTED" /\ pc' = "selected" /\ outcome' = outcome
            ELSE imap_state' = imap_state /\ Raise("RuntimeWarning")
    /\ UNCHANGED <<pure, cfg, mailbox, dates, to_fetch, cur, files, extracted_nb,
                   extracted_from_nb, extracted_size, extractions, processed>>

\* line 301-302: neither a date definition nor fetch_all;
\* line 304 -> 210: the date definition does not match
DateError ==
    /\ pc = "selected"
    /\ \E message \in {"Date criteria not found", "Invalid date definition"} :
         Raise(message)
    /\ UNCHANGED <<pure, cfg, mailbox, imap_state, dates, to_fetch, cur, files,
                   extracted_nb, extracted_from_nb, extracted_size, cmds,
                   extractions, processed>>

\* SEARCH UNDELETED: the messages of the folder not marked \Deleted
Undeleted ==
    { u \in 1..Len(mailbox) : mailbox[u].exists /\ "\\Deleted" \notin mailbox[u].flags }

RECURSIVE Ascending(_)
Ascending(S) ==
    IF S = {} THEN <<>>
    ELSE LET m == CHOOSE x \in S : \A y \in S : x <= y
         IN <<m>> \o Ascending(S \ {m})

\* the date definition of the command line; a run that follows another is
\* given the same one
DateArgs == IF first = NoRun THEN DateDefs \cup {Unbound} ELSE {first.dates}

\* lines 303-335; with fetch_all and no date definition `dates` stays unbound
Search ==
    /\ pc = "selected"
    /\ \E d \in DateArgs, status \in {"OK", "NO"} :
         /\ dates' = d
         /\ Issue("SEARCH", 0, status)
         /\ IF status # "OK" THEN Raise("RuntimeWarning") /\ to_fetch' = to_fetch
            ELSE IF Undeleted = {}
            THEN pc' = "exit" /\ outcome' = "exit0" /\ to_fetch' = to_fetch
            ELSE pc' = "scan" /\ outcome' = outcome /\ to_fetch' = Ascending(Undeleted)
    /\ UNCHANGED <<pure, cfg, mailbox, imap_state, cur, files, extracted_nb,
                   extracted_from_nb, extracted_size, extractions, processed>>

\* the structure of a message holds "attachment", "application" (or "image")
HasAttachments(mail, inline_images) ==
    \E i \in 1..Len(mail.parts) :
        \/ mail.parts[i].disp = "attachment"
        \/ mail.parts[i].ctype = "application/pdf"
        \/ inline_images /\ mail.parts[i].ctype = "image/png"

\* lines 337-389: BODYSTRUCTURE[PEEK], on IMAP4.error BODYSTRUCTURE; the scan
FetchStructure ==
    /\ pc = "scan"
    /\ \E peek \in {"OK", "NO", "BAD"}, again \in {"OK", "NO", "BAD"}, inline_images \in BOOLEAN :
         LET status == IF peek # "BAD" THEN peek ELSE again
             uids == IF status = "OK"
                     THEN SelectSeq(to_fetch, LAMBDA u : HasAttachments(mailbox[u], inline_images))
                     ELSE <<>>
         IN /\ cmds' = IF peek # "BAD"
                       THEN Append(cmds, Cmd("FETCH", 0, peek))
                       ELSE cmds \o <<Cmd("FETCH", 0, "BAD"), Cmd("FETCH", 0, again)>>
            /\ to_fetch' = uids
            /\ IF status = "BAD" THEN Raise("error")
               ELSE IF uids = <<>> THEN pc' = "exit" /\ outcome' = "exit0"
               ELSE pc' = "fetch" /\ outcome' = outcome
    /\ UNCHANGED <<pure, cfg, mailbox, imap_state, dates, cur, files, extracted_nb,
                   extracted_from_nb, extracted_size, extractions, processed>>


\* what extract() did with one fetched message: the counters before and after
Processed(uid, how, nb_extraction, new_mail) ==
    [uid |-> uid, how |-> how, nb_extraction |-> nb_extraction,
     new_mail |-> new_mail, before |-> Counters, after |-> Counters',
     created |-> files' \ files]

\* where the run goes after the walk of a message, lines 579-617
AfterWalk(nb_extraction, is_flagged) ==
    IF ShouldReplace(nb_extraction, is_flagged) /\ ~cfg.dry_run THEN "append" ELSE "next"

\* AfterAppend without the test of the status (lines 583-585 dropped)
AfterAppend_IgnoresStatus(status) ==
    IF ShouldStore THEN "store" ELSE "next"

\* where the run goes after APPEND returned, lines 583-608
AfterAppend(status) ==
    IF status # "OK" THEN "next"
    ELSE IF ShouldStore THEN "store" ELSE "next"

\* where the server puts FLAGS in its answer to FETCH (FLAGS RFC822): in the
\* element that carries the message, or in the line that follows it
FlagsAt == {"head", "tail"}
\* ParseFlags on the element at `at` of an answer with the flags at `where`
ParseFlags(flags, where, at) == IF where = at THEN flags ELSE {}

\* the flags read from the first element alone (lines 413-417 dropped)
FetchedFlags_HeadOnly(flags, where) == ParseFlags(flags, where, "head")

\* lines 412-420: the flags of the element, or of the next one when the
\* element shows none
FetchedFlags(flags, where) ==
    IF ParseFlags(flags, where, "head") # {}
    THEN ParseFlags(flags, where, "head")
    ELSE ParseFlags(flags, where, "tail")

\* one iteration of `for uid in to_fetch`, lines 391-579, up to the APPEND
FetchMessage ==
    /\ pc = "fetch"
    /\ to_fetch # <<>>
    /\ \E status \in {"OK", "NO", "BAD"},
          flags \in { FetchedFlags(mailbox[Head(to_fetch)].flags, where) : where \in FlagsAt } :
         LET uid == Head(to_fetch)
             mail == mailbox[uid]
             is_flagged == "\\Flagged" \in flags
             st == Walk(uid, mail, is_flagged)
             skipped(how) ==
                 /\ UNCHANGED <<cur, files, extracted_nb, extracted_from_nb,
                                extracted_size, extractions>>
                 /\ processed' = Append(processed, Processed(uid, how, 0, <<>>))
                 /\ Continue
             crashed(kind) ==
                 /\ Raise(kind)
                 /\ UNCHANGED <<to_fetch, cur, files, extracted_nb, extracted_from_nb,
                                extracted_size, extractions, processed>>
         IN /\ Issue("FETCH", uid, status)
            /\ IF status = "BAD"            \* IMAP4.error, caught at line 394
               THEN /\ Continue
                    /\ UNCHANGED <<cur, files, extracted_nb, extracted_from_nb,
                                   extracted_size, extractions, processed>>
               ELSE IF status = "NO"        \* fetch_data holds no message
               THEN crashed("error")
               ELSE IF mail.day = NoDate    \* line 436: re.match(..., None)
               THEN crashed("error")
               ELSE IF dates = Unbound      \* line 445: `dates` was never assigned
               THEN crashed("error")
               ELSE IF ~DateOk(mail.day)
               THEN skipped("date_skip")
               ELSE IF SkipFlagged(is_flagged)
               THEN skipped("flag_skip")
               ELSE /\ files' = st.files
                    /\ extractions' = st.extractions
                    /\ extracted_nb' = st.extracted_nb
                    /\ extracted_size' = st.extracted_size
                    /\ extracted_from_nb' =
                         extracted_from_nb + (IF st.nb_extraction > 0 THEN 1 ELSE 0)
                    /\ processed' = Append(processed,
                         Processed(uid, "walked", st.nb_extraction, st.new_mail))
                    /\ IF AfterWalk(st.nb_extraction, is_flagged) = "append"
                       THEN /\ pc' = "append"
                            /\ cur' = [uid |-> uid, flags |-> flags,
                                       new_mail |-> st.new_mail,
                                       nb_extraction |-> st.nb_extraction]
                            /\ UNCHANGED <<to_fetch, outcome>>
                       ELSE Continue /\ cur' = cur
    /\ UNCHANGED <<pure, cfg, mailbox, imap_state, dates>>

\* the parts a later walk of the rebuilt message yields: the attached
\* multipart/alternative container brings its children with it
RECURSIVE AsWalked(_, _)
AsWalked(new_mail, children) ==
    IF new_mail = <<>> THEN <<>>
    ELSE IF Head(new_mail).ctype = "multipart/alternative"
    THEN <<Head(new_mail)>> \o children \o AsWalked(Tail(new_mail), children)
    ELSE <<Head(new_mail)>> \o AsWalked(Tail(new_mail), children)

\* line 582: self.imap.append(folder, flags, '', new_mail); on a BAD
\* response imaplib raises IMAP4.error, which nothing here catches
AppendMessage ==
    /\ pc = "append"
    /\ \E status \in {"OK", "NO", "BAD"} :
         /\ Issue("APPEND", cur.uid, status)
         /\ mailbox' = IF status = "OK"
                       THEN Append(mailbox, [flags |-> cur.flags,
                                             day |-> mailbox[cur.uid].day,
                                             parts |-> AsWalked(cur.new_mail,
                                                 SelectSeq(mailbox[cur.uid].parts,
                                                           LAMBDA q : q.child)),
                                             exists |-> TRUE, src |-> cur.uid])
                       ELSE mailbox
         /\ IF status = "BAD"
            THEN Raise("error") /\ UNCHANGED <<to_fetch, cur>>
            ELSE IF AfterAppend(status) = "store"
            THEN pc' = "store" /\ UNCHANGED <<to_fetch, outcome, cur>>
            ELSE Continue /\ cur' = NoCur
    /\ UNCHANGED <<pure, cfg, imap_state, dates, files, extracted_nb, extracted_from_nb,
                   extracted_size, extractions, processed>>

\* line 596: self.imap.store(uid, '+FLAGS', '\Deleted'); a BAD response
\* is an uncaught IMAP4.error here too
StoreDeleted ==
    /\ pc = "store"
    /\ \E status \in {"OK", "NO", "BAD"} :
         /\ Issue("STORE", cur.uid, status)
         /\ mailbox' = IF status = "OK"
                       THEN [mailbox EXCEPT ![cur.uid].flags = @ \cup {"\\Deleted"}]
                       ELSE mailbox
         /\ IF status = "BAD"
            THEN Raise("error") /\ UNCHANGED <<to_fetch, cur>>
            ELSE Continue /\ cur' = NoCur
    /\ UNCHANGED <<pure, cfg, imap_state, dates, files, extracted_nb, extracted_from_nb,
                   extracted_size, extractions, processed>>

\* ExitCommands with close() called before expunge()
ExitCommands_CloseFirst ==
    IF imap_state = "SELECTED" THEN <<"CLOSE", "EXPUNGE", "LOGOUT">> ELSE <<>>

\* __exit__, lines 655-659: everything hangs on the state being SELECTED
ExitCommands == IF imap_state = "SELECTED" THEN <<"EXPUNGE", "CLOSE", "LOGOUT">> ELSE <<>>

\* an EXPUNGE that removes nothing
Expunged_Nothing == mailbox

\* self.imap.expunge(): the messages marked \Deleted are removed for good
Expunged ==
    [u \in 1..Len(mailbox) |->
        IF "\\Deleted" \in mailbox[u].flags
        THEN [mailbox[u] EXCEPT !.exists = FALSE]
        ELSE mailbox[u]]

\* __exit__ as the `with` statement of main() runs it, on every way out
Exit ==
    /\ pc = "exit"
    /\ cmds' = cmds \o [i \in 1..Len(ExitCommands) |-> Cmd(ExitCommands[i], 0, "OK")]
    /\ mailbox' = IF \E i \in 1..Len(ExitCommands) : ExitCommands[i] = "EXPUNGE"
                  THEN Expunged ELSE mailbox
    /\ imap_state' = IF \E i \in 1..Len(ExitCommands) : ExitCommands[i] = "LOGOUT"
                     THEN "LOGOUT" ELSE imap_state
    /\ pc' = "done"
    /\ UNCHANGED <<pure, cfg, dates, to_fetch, cur, files, extracted_nb,
                   extracted_from_nb, extracted_size, extractions, processed, outcome>>

Next ==
    \/ ConstructError
    \/ Connect
    \/ ListFolders
    \/ Select
    \/ DateError
    \/ Search
    \/ FetchStructure
    \/ FetchMessage
    \/ AppendMessage
    \/ StoreDeleted
    \/ Exit

Spec == Init /\ [][Next]_vars


\* ------------------------------------------------- reading the history
CmdIdx == 1..Len(cmds)
HasCmd(op, uid) == \E i \in CmdIdx : cmds[i].op = op /\ cmds[i].uid = uid
Appended(uid) == HasCmd("APPEND", uid)
Stored(uid) == HasCmd("STORE", uid)
AppendedOk(uid) == \E i \in CmdIdx : cmds[i] = Cmd("APPEND", uid, "OK")
StoreFollowsAppend(uid) ==
    \E i, j \in CmdIdx :
        i < j /\ cmds[i].op = "APPEND" /\ cmds[i].uid = uid
              /\ cmds[j].op = "STORE" /\ cmds[j].uid = uid
IsFlagged(uid) == "\\Flagged" \in mailbox[uid].flags
Entries == { processed[i] : i \in 1..Len(processed) }
Walked == { p \in Entries : p.how = "walked" }
\* the run is through with the message: no command for it is still to come
Settled(p) == ~(pc \in {"append", "store"} /\ cur.uid = p.uid)
ExtractionsOf(uid) == { i \in 1..Len(extractions) : extractions[i].uid = uid }
FilesOf(uid) == { i \in ExtractionsOf(uid) : extractions[i].wrote }
WrittenFor(uid, pi) ==
    \E i \in FilesOf(uid) : extractions[i].pi = pi /\ extractions[i].file \in files
PartsOf(uid) == mailbox[uid].parts
Attachments(uid) == { pi \in 1..Len(PartsOf(uid)) : IsAttachment(PartsOf(uid)[pi]) }

\* ------------------------------------------------------------------ C1
\* C1: a STORE +FLAGS \Deleted is issued for a message only after an APPEND
\* of that message returned OK earlier in the run; after an APPEND that
\* returned a non-OK status no STORE is ever issued for that message.
C1_StoreOnlyAfterAppendOk ==
    \A j \in CmdIdx :
        /\ cmds[j].op = "STORE" =>
             \E i \in 1..(j - 1) : cmds[i] = Cmd("APPEND", cmds[j].uid, "OK")
        /\ (cmds[j].op = "APPEND" /\ cmds[j].st # "OK") => ~Stored(cmds[j].uid)

\* a finished run in which one APPEND failed and another message was stored
C1_Witness ==
    /\ pc = "done"
    /\ \E i, j \in CmdIdx :
         /\ cmds[i].op = "APPEND" /\ cmds[i].st = "NO"
         /\ cmds[j].op = "STORE"

\* ------------------------------------------------------------------ C2
\* C2: in every run SEARCH has completed before any FETCH, the APPEND of a
\* message precedes its STORE, and EXPUNGE is issued at most once, after the
\* last STORE (nothing but CLOSE and LOGOUT follows it) and before CLOSE and
\* LOGOUT, when no candidate is being processed any more.
C2_CommandOrder ==
    \A j \in CmdIdx :
        /\ cmds[j].op = "FETCH" => \E i \in 1..(j - 1) : cmds[i] = Cmd("SEARCH", 0, "OK")
        /\ cmds[j].op = "STORE" =>
             \E i \in 1..(j - 1) : cmds[i].op = "APPEND" /\ cmds[i].uid = cmds[j].uid
        /\ cmds[j].op = "EXPUNGE" =>
             /\ \A i \in 1..(j - 1) : cmds[i].op # "EXPUNGE"
             /\ \A k \in (j + 1)..Len(cmds) : cmds[k].op \in {"CLOSE", "LOGOUT"}
             /\ pc = "done"
        /\ cmds[j].op = "CLOSE" => \E i \in 1..(j - 1) : cmds[i].op = "EXPUNGE"
        /\ cmds[j].op = "LOGOUT" => \E i \in 1..(j - 1) : cmds[i].op = "CLOSE"

\* a finished run that replaced two messages and then released the session
C2_Witness ==
    /\ pc = "done"
    /\ \E u, v \in 1..Len(mailbox) : u # v /\ Stored(u) /\ Stored(v)
    /\ HasCmd("EXPUNGE", 0) /\ HasCmd("CLOSE", 0) /\ HasCmd("LOGOUT", 0)

\* ------------------------------------------------------------------ C3
\* C3: on every exit path of a run after a successful login the session is
\* released: once the run is over LOGOUT has been issued, preceded by EXPUNGE
\* and CLOSE when a folder was selected.
C3_SessionReleased ==
    (pc = "done" /\ \E l \in CmdIdx : cmds[l] = Cmd("LOGIN", 0, "OK")) =>
        \E j \in CmdIdx :
            /\ cmds[j].op = "LOGOUT"
            /\ (\E s \in CmdIdx : cmds[s] = Cmd("SELECT", 0, "OK")) =>
                 \E i, k \in 1..(j - 1) :
                     i < k /\ cmds[i].op = "EXPUNGE" /\ cmds[k].op = "CLOSE"

\* ------------------------------------------------------------------ C4
\* C4: with dry_run set no APPEND, STORE or EXPUNGE is issued, and every
\* message of the folder at session start (those already marked \Deleted
\* included) is still in the folder, which holds no other message.
C4_DryRunLeavesServerIntact ==
    cfg.dry_run =>
        /\ \A i \in CmdIdx : cmds[i].op \notin {"APPEND", "STORE", "EXPUNGE"}
        /\ \A u \in 1..Len(mailbox) : mailbox[u].exists /\ mailbox[u].src = 0


\* ------------------------------------------------------------------ C5
\* C5 as stated: for a message with at least one extraction, debug mode
\* (not dry-run) issues APPEND and no STORE; dry-run issues neither;
\* extract_only issues neither; otherwise APPEND is followed by STORE.
C5_ModesAsStated ==
    \A p \in Walked :
        (p.nb_extraction > 0 /\ Settled(p)) =>
            /\ (cfg.debug /\ ~cfg.dry_run) => (Appended(p.uid) /\ ~Stored(p.uid))
            /\ cfg.dry_run => (~Appended(p.uid) /\ ~Stored(p.uid))
            /\ cfg.extract_only => (~Appended(p.uid) /\ ~Stored(p.uid))
            /\ (~cfg.debug /\ ~cfg.dry_run /\ ~cfg.extract_only) =>
                 StoreFollowsAppend(p.uid)

\* C5 amended: for a message with at least one extraction that is unflagged,
\* or flagged under 'detach': with extract_only or dry-run neither APPEND nor
\* STORE is issued; else in debug mode APPEND is issued and no STORE; else
\* APPEND is issued and, exactly when it returned OK, followed by STORE.  For
\* a flagged message under 'skip' or 'extract' neither is issued.
C5_Modes ==
    \A p \in Walked :
        (p.nb_extraction > 0 /\ Settled(p)) =>
            IF (IsFlagged(p.uid) /\ cfg.flagged_action # "detach")
               \/ cfg.extract_only \/ cfg.dry_run
            THEN ~Appended(p.uid) /\ ~Stored(p.uid)
            ELSE /\ Appended(p.uid)
                 /\ IF cfg.debug THEN ~Stored(p.uid)
                    ELSE /\ Stored(p.uid) <=> AppendedOk(p.uid)
                         /\ Stored(p.uid) => StoreFollowsAppend(p.uid)

\* a finished debug run that appended a rebuilt message
C5_Witness ==
    /\ pc = "done" /\ cfg.debug
    /\ \E p \in Walked : p.nb_extraction > 0 /\ AppendedOk(p.uid)

\* ------------------------------------------------------------------ C6
\* C6: a message carrying \Flagged, under flagged_action 'skip', has nothing
\* extracted: no file is written, the run counters are as before it, and no
\* APPEND and no STORE is issued for it.
C6_FlaggedSkipUntouched ==
    cfg.flagged_action = "skip" =>
        \A u \in 1..Len(mailbox) :
            IsFlagged(u) =>
                /\ ExtractionsOf(u) = {}
                /\ \A p \in Entries :
                     p.uid = u => /\ p.nb_extraction = 0
                                  /\ p.after = p.before
                                  /\ p.created = {}
                /\ ~Appended(u) /\ ~Stored(u)

\* a flagged message was fetched and skipped at line 476
C6_Witness == \E p \in Entries : p.how = "flag_skip" /\ IsFlagged(p.uid)

\* ------------------------------------------------------------------ C7
\* An attachment the walk can extract: no detached marker, a payload that decodes.
Extractable(part) == IsAttachment(part) /\ ~part.marked /\ ~DecodeFails(part)

C8_SizeGate ==
    \A p \in Walked :
        \A pi \in Attachments(p.uid) :
            LET part == PartsOf(p.uid)[pi] IN
            (part.size <= max_size /\ ~part.marked) =>
                /\ \A i \in ExtractionsOf(p.uid) : extractions[i].pi # pi
                /\ \E k \in 1..Len(p.new_mail) : p.new_mail[k] = part

\* ------------------------------------------------------------------ C9
\* C9, read in the mode that produces stubs and files (thunderbird_mode, not
\* dry_run): for a message walked in replacement mode (unflagged, or flagged
\* under 'detach'; not extract_only) whose attachments all decode and none of
\* which carries the marker, the rebuilt message holds every attachment not
\* exceeding the threshold unchanged and exactly one stub (with the file's
\* location and the marker) for each attachment exceeding it, and the number
\* of files written, the extraction count and the number of attachments
\* exceeding the threshold are equal.
C9_RebuiltMessage ==
    \A p \in Walked :
        LET atts == Attachments(p.uid)
            big == { pi \in atts : PartsOf(p.uid)[pi].size > max_size }
            stubs == { k \in 1..Len(p.new_mail) : p.new_mail[k].stub }
        IN (/\ cfg.thunderbird_mode /\ ~cfg.dry_run
            /\ (~IsFlagged(p.uid) \/ cfg.flagged_action = "detach")
            /\ ~cfg.extract_only
            /\ \A pi \in atts : Extractable(PartsOf(p.uid)[pi])) =>
               /\ \A pi \in atts \ big :
                    \E k \in 1..Len(p.new_mail) : p.new_mail[k] = PartsOf(p.uid)[pi]
               /\ Cardinality(stubs) = Cardinality(big)
               /\ \A k \in stubs : p.new_mail[k].marked /\ p.new_mail[k].url \in files
               /\ Cardinality(FilesOf(p.uid)) = p.nb_extraction
               /\ p.nb_extraction = Cardinality(big)

\* ----------------------------------------------------------------- C10
\* C10: a part carrying the detached marker is never re-extracted, whatever
\* its size and the mode: no extraction (file or counter increment) is ever
\* made for such a part, every counter increment being one extraction.
C10_DetachedNeverReExtracted ==
    /\ \A i \in 1..Len(extractions) :
         ~PartsOf(extractions[i].uid)[extractions[i].pi].marked
    /\ extracted_nb = Len(extractions)
    /\ \A p \in Entries : p.nb_extraction = Cardinality(ExtractionsOf(p.uid))
    /\ extracted_from_nb =
         Cardinality({ u \in 1..Len(mailbox) : ExtractionsOf(u) # {} })

\* a message with a marked part at or over the threshold was walked and
\* another of its parts was extracted
C10_Witness ==
    \E p \in Walked :
        /\ p.nb_extraction > 0
        /\ \E pi \in Attachments(p.uid) :
             PartsOf(p.uid)[pi].marked /\ PartsOf(p.uid)[pi].size >= max_size

\* ----------------------------------------------------------------- C11
\* C11: a part already carrying the detached marker is copied unchanged into
\* the rebuilt message: every appended message rebuilt from a message that
\* holds a marked part still holds that part.
C11_MarkedStubKept ==
    \A u \in 1..Len(mailbox) :
        mailbox[u].src # 0 =>
            \A pi \in 1..Len(PartsOf(mailbox[u].src)) :
                LET part == PartsOf(mailbox[u].src)[pi] IN
                part.marked => \E k \in 1..Len(mailbox[u].parts) : mailbox[u].parts[k] = part

\* ----------------------------------------------- the extraction directory
\* Most files of one date and name an earlier run left in the directory.
MaxExisting == 2

\* what earlier extractions of an attachment "a" dated 1 left behind
Existing(n) == { FileName(1, i, Declared("a")) : i \in 0..(n - 1) }
Directories == { Existing(n) : n \in 0..MaxExisting }

\* the modes in which the run names files, writes them and replaces messages
DirConfigs == { c \in Configs : c.thunderbird_mode /\ ~c.debug /\ ~c.extract_only }

\* a run started on a directory that earlier runs have filled
InitDir ==
    /\ cfg \in DirConfigs
    /\ mailbox \in Mailboxes
    /\ files \in Directories
    /\ imap_state = "NONAUTH"
    /\ pc = "start"
    /\ dates = Unbound
    /\ to_fetch = <<>>
    /\ cur = NoCur
    /\ extracted_nb = 0
    /\ extracted_from_nb = 0
    /\ extracted_size = 0
    /\ cmds = <<>>
    /\ extractions = <<>>
    /\ processed = <<>>
    /\ outcome = "running"
    /\ date_def = NoDef
    /\ parsed = Pending
    /\ CodecIdle
    /\ FilterIdle
    /\ ScanIdle
    /\ first = NoRun

SpecDir == InitDir /\ [][Next]_vars

Writes == { i \in 1..Len(extractions) : extractions[i].wrote }

\* ----------------------------------------------------------------- C12
\* C12: every file write of an extraction targets a path that was not in the
\* extraction directory immediately before the write, so the files written
\* during a run have pairwise distinct paths and no file that was present
\* before the run (or written earlier in it) is written again.
C12_WritesAreFresh ==
    /\ \A i \in Writes : extractions[i].file \notin extractions[i].dir
    /\ \A i, j \in Writes : i # j => extractions[i].file # extractions[j].file
    /\ \A i, j \in Writes : i <= j => extractions[j].file \notin extractions[i].dir
    /\ \A i \in Writes : extractions[i].file \in files

\* two writes of the same date and name into a directory that held that name
C12_Witness ==
    \E i, j \in Writes :
        /\ i < j
        /\ extractions[i].file.name = extractions[j].file.name
        /\ extractions[i].file.day = extractions[j].file.day
        /\ FileName(extractions[i].file.day, 0, extractions[i].file.name)
             \in extractions[i].dir

\* ----------------------------------------------------------------- C13
\* the files of the directory `dir` that carry the date and the name of `file`
SameDayAndName(file, dir) == { f \in dir : f.day = file.day /\ f.name = file.name }

\* C13: the k-th colliding extraction (k >= 1) of one message date and one
\* filename, counted over the extractions the directory has received, is
\* written as '<date> (NN) - <filename>' with NN = k padded to two digits, and
\* an extraction that collides with nothing as '<date> - <filename>': the
\* first of two same-day, same-named attachments is written without a
\* disambiguator and the second with (01).
C13_Disambiguator ==
    \A i \in Writes :
        LET k == Cardinality(SameDayAndName(extractions[i].file, extractions[i].dir))
        IN /\ k = 0 => extractions[i].file.nn = <<>>
           /\ (k >= 1 /\ k <= 99) => extractions[i].file.nn = <<k \div 10, k % 10>>

\* '<date> - a' was there; the run wrote '<date> (01) - a', then '<date> (02) - a'
C13_Witness ==
    \E i, j \in Writes :
        /\ i < j
        /\ extractions[i].dir = Existing(1)
        /\ extractions[i].file.nn = <<0, 1>>
        /\ extractions[j].file.nn = <<0, 2>>
        /\ extractions[j].file.name = Declared("a")

\* ------------------------------------------------------------- parse_date
\* A string is the sequence of its characters; None is a group that did not
\* take part in the match (a group that did is never empty).
None == <<>>
DigitChar == <<"0", "1", "2", "3", "4", "5", "6", "7", "8", "9">>
IsDigit(c) == \E n \in 1..10 : DigitChar[n] = c
CharVal(c) == (CHOOSE n \in 1..10 : DigitChar[n] = c) - 1

\* int(group)
RECURSIVE ToInt(_)
ToInt(s) == IF s = <<>> THEN 0 ELSE 10 * ToInt(SubSeq(s, 1, Len(s) - 1)) + CharVal(s[Len(s)])

\* "%0<w>d" % n
RECURSIVE Pad(_, _)
Pad(n, w) == IF w = 0 THEN <<>> ELSE Pad(n \div 10, w - 1) \o <<DigitChar[(n % 10) + 1]>>

\* \d{n} at position p
DigitsAt(s, p, n) == p + n - 1 <= Len(s) /\ \A i \in p..(p + n - 1) : IsDigit(s[i])

\* \s* from position p: the position after the white space
RECURSIVE SkipSpaces(_, _)
SkipSpaces(s, p) == IF p <= Len(s) /\ s[p] = " " THEN SkipSpaces(s, p + 1) ELSE p

\* -? at position p
OptDash(s, p) == IF p <= Len(s) /\ s[p] = "-" THEN p + 1 ELSE p

\* (\d{n})? at position p: the group and the position after it
OptDigits(s, p, n) ==
    IF DigitsAt(s, p, n) THEN [g |-> SubSeq(s, p, p + n - 1), p |-> p + n]
    ELSE [g |-> None, p |-> p]

\* (\s*to\s*)? at position p
OptTo(s, p) ==
    LET q == SkipSpaces(s, p) IN
    IF q + 1 <= Len(s) /\ s[q] = "t" /\ s[q + 1] = "o"
    THEN [g |-> SubSeq(s, p, SkipSpaces(s, q + 2) - 1), p |-> SkipSpaces(s, q + 2)]
    ELSE [g |-> None, p |-> p]

\* re.match of line 208: anchored at the start only; past the first year
\* every element is optional, so the leftmost greedy choice always succeeds
Match(s) ==
    LET modifier == IF Len(s) >= 1 /\ s[1] \in {"<", ">"} THEN <<s[1]>> ELSE None
        p1 == SkipSpaces(s, IF modifier # None THEN 2 ELSE 1)
        m1 == OptDigits(s, OptDash(s, p1 + 4), 2)
        d1 == OptDigits(s, OptDash(s, m1.p), 2)
        to == OptTo(s, d1.p)
        y2 == OptDigits(s, to.p, 4)
        m2 == OptDigits(s, OptDash(s, y2.p), 2)
        d2 == OptDigits(s, OptDash(s, m2.p), 2)
    IN IF ~DigitsAt(s, p1, 4) THEN [matched |-> FALSE]
       ELSE [matched |-> TRUE, modifier |-> modifier,
             y1 |-> SubSeq(s, p1, p1 + 3), m1 |-> m1.g, d1 |-> d1.g,
             to |-> to.g, y2 |-> y2.g, m2 |-> m2.g, d2 |-> d2.g, end |-> d2.p]

\* datetime.date and calendar
IsLeap(y) == y % 4 = 0 /\ (y % 100 # 0 \/ y % 400 = 0)
\* calendar.monthrange(y, m)[1]
DaysIn(y, m) ==
    IF m = 2 THEN (IF IsLeap(y) THEN 29 ELSE 28)
    ELSE IF m \in {4, 6, 9, 11} THEN 30 ELSE 31
\* date(y, m, d) raises ValueError unless the day exists
ValidDate(y, m, d) == y >= 1 /\ m \in 1..12 /\ d \in 1..DaysIn(y, m)
Date(y, m, d) == [y |-> y, m |-> m, d |-> d]

MonthAbbr == <<"Jan", "Feb", "Mar", "Apr", "May", "Jun",
               "Jul", "Aug", "Sep", "Oct", "Nov", "Dec">>

\* date.strftime: "%d-%b-%Y" for "imap", "%Y-%m-%d" for "ymd"
Strftime(dt, date_format) ==
    IF dt = None THEN None
    ELSE IF date_format = "imap"
    THEN Pad(dt.d, 2) \o <<"-", MonthAbbr[dt.m], "-">> \o Pad(dt.y, 4)
    ELSE Pad(dt.y, 4) \o <<"-">> \o Pad(dt.m, 2) \o <<"-">> \o Pad(dt.d, 2)

Raised(exception) == [kind |-> exception]
\* line 273, after the formatting of lines 264-271
Returned(date_on, date_since, date_before, date_format) ==
    [kind |-> "returned", date_format |-> date_format,
     on |-> Strftime(date_on, date_format),
     since |-> Strftime(date_since, date_format),
     before |-> Strftime(date_before, date_format)]

\* MonthOrDecember defaulting to January
MonthOrDecember_January(m1) == IF m1 # None THEN ToInt(m1) ELSE 1

\* line 226: int(m1) if m1 else 12
MonthOrDecember(m1) == IF m1 # None THEN ToInt(m1) ELSE 12

\* lines 247-262: the range, reached without modifier when `to` matched
Range(g, date_on, date_since, date_format) ==
    IF g.y2 = None THEN Raised("TypeError")              \* int(None), line 249
    ELSE LET y2 == ToInt(g.y2)
             since == IF date_since = None THEN date_on ELSE date_since
         IN IF g.m2 = None
            THEN IF ValidDate(y2, 12, 31)
                 THEN Returned(date_on, since, Date(y2, 12, 31), date_format)
                 ELSE Raised("ValueError")
            ELSE IF g.d2 = None
            THEN IF ToInt(g.m2) \in 1..12
                 THEN Raised("IndexError")               \* monthrange(y2, m2)[2], line 258
                 ELSE Raised("ValueError")               \* IllegalMonthError
            ELSE IF ValidDate(y2, ToInt(g.m2), ToInt(g.d2))
                 THEN Returned(date_on, since, Date(y2, ToInt(g.m2), ToInt(g.d2)),
                               date_format)
                 ELSE Raised("ValueError")

\* lines 246-273, once the single date has given date_on, or date_since and
\* date_before
AfterSingle(g, date_on, date_since, date_before, date_format) ==
    IF g.to # None THEN Range(g, date_on, date_since, date_format)
    ELSE Returned(date_on, date_since, date_before, date_format)

\* lines 186-273
parse_date(text, date_format) ==
    LET g == Match(text) IN
    IF ~g.matched THEN Raised("RuntimeWarning")
    ELSE LET y1 == ToInt(g.y1) IN
         IF g.modifier = <<">">>
         THEN LET m1 == IF g.m1 # None THEN ToInt(g.m1) ELSE 1
                  d1 == IF g.d1 # None THEN ToInt(g.d1) ELSE 1
              IN IF ValidDate(y1, m1, d1)
                 THEN Returned(None, Date(y1, m1, d1), None, date_format)
                 ELSE Raised("ValueError")
         ELSE IF g.modifier = <<"<">>
         THEN LET m1 == MonthOrDecember(g.m1)
                  d1 == IF g.d1 # None THEN ToInt(g.d1) ELSE DaysIn(y1, m1)
              IN IF ValidDate(y1, m1, d1)
                 THEN Returned(None, None, Date(y1, m1, d1), date_format)
                 ELSE Raised("ValueError")
         ELSE IF g.m1 = None
         THEN IF ValidDate(y1, 1, 1)
              THEN AfterSingle(g, None, Date(y1, 1, 1), Date(y1, 12, 31), date_format)
              ELSE Raised("ValueError")
         ELSE IF g.d1 = None
         THEN IF ValidDate(y1, ToInt(g.m1), 1)
              THEN AfterSingle(g, None, Date(y1, ToInt(g.m1), 1),
                               Date(y1, ToInt(g.m1), DaysIn(y1, ToInt(g.m1))),
                               date_format)
              ELSE Raised("ValueError")
         ELSE IF ValidDate(y1, ToInt(g.m1), ToInt(g.d1))
              THEN AfterSingle(g, Date(y1, ToInt(g.m1), ToInt(g.d1)), None, None,
                               date_format)
              ELSE Raised("ValueError")

\* ------------------------------------------- the date definitions tried
\* Last year written in a date definition.
LastYear == 2013
\* Most characters following what the definition should end with.
MaxTrail == 1

Years == 2012..LastYear
Months == {2, 4, 10, 12}
Days == {1, 21}
\* a month or a day that is not written
Omitted == 0

\* a date as it is written: YYYY, YYYY-MM or YYYY-MM-DD
DateTexts ==
    { t \in [y : Years, m : Months \cup {Omitted}, d : Days \cup {Omitted}] :
        t.m = Omitted => t.d = Omitted }
NoSecond == [y |-> Omitted, m |-> Omitted, d |-> Omitted]

\* how a definition is written: [<|>] date ['to' [date]] and what follows
Forms ==
    { f \in [modifier : {"", "<", ">"}, d1 : DateTexts, to : BOOLEAN,
             d2 : DateTexts \cup {NoSecond}, trail : 0..MaxTrail] :
        f.d2 # NoSecond => f.to }

RenderDate(t) ==
    Pad(t.y, 4) \o (IF t.m = Omitted THEN <<>> ELSE <<"-">> \o Pad(t.m, 2))
                \o (IF t.d = Omitted THEN <<>> ELSE <<"-">> \o Pad(t.d, 2))

Render(f) ==
    (IF f.modifier = "" THEN <<>> ELSE <<f.modifier>>)
    \o RenderDate(f.d1)
    \o (IF f.to THEN <<" ", "t", "o", " ">> ELSE <<>>)
    \o (IF f.d2 = NoSecond THEN <<>> ELSE RenderDate(f.d2))
    \o [i \in 1..f.trail |-> "x"]

DateDefinitions == { [text |-> Render(f), form |-> f] : f \in Forms }

\* __init__'s defaults
DefaultConfig ==
    [thunderbird_mode |-> FALSE, flagged_action |-> "skip", extract_only |-> FALSE,
     dry_run |-> FALSE, debug |-> FALSE]

\* everything but the argument and the result of parse_date
session == <<cfg, mailbox, imap_state, pc, dates, to_fetch, cur, files,
             extracted_nb, extracted_from_nb, extracted_size, cmds, extractions,
             processed, outcome>>

\* parse_date is a static method: nothing of a session is needed to call it
InitDate ==
    /\ date_def \in DateDefinitions
    /\ parsed = Pending
    /\ cfg = DefaultConfig
    /\ mailbox = <<>>
    /\ imap_state = "NONAUTH"
    /\ pc = "start"
    /\ dates = Unbound
    /\ to_fetch = <<>>
    /\ cur = NoCur
    /\ files = {}
    /\ extracted_nb = 0
    /\ extracted_from_nb = 0
    /\ extracted_size = 0
    /\ cmds = <<>>
    /\ extractions = <<>>
    /\ processed = <<>>
    /\ outcome = "running"
    /\ CodecIdle
    /\ FilterIdle
    /\ ScanIdle
    /\ first = NoRun

\* extract() calls it twice, for the "imap" and for the "ymd" format
CallParseDate ==
    /\ parsed = Pending
    /\ \E date_format \in {"imap", "ymd"} :
         parsed' = parse_date(date_def.text, date_format)
    /\ UNCHANGED <<date_def, session, codec, filter, scan, first>>

NextDate == CallParseDate

SpecDate == InitDate /\ [][NextDate]_vars

\* ------------------------------------------ what a definition should mean
\* parse_date was called on a definition
Called == parsed # Pending
\* the definition is of the grammar [<|>] date ['to' date]
InGrammar(f) == f.trail = 0 /\ (f.to <=> f.d2 # NoSecond)
\* the number of days of month m of year y
LastDayOf(y, m) ==
    CASE m \in {1, 3, 5, 7, 8, 10, 12} -> 31
      [] m \in {4, 6, 9, 11} -> 30
      [] m = 2 -> IF y % 400 = 0 \/ (y % 4 = 0 /\ y % 100 # 0) THEN 29 ELSE 28
\* a written date with what is missing taken as the first of the period
FirstOf(t) ==
    [y |-> t.y, m |-> IF t.m = Omitted THEN 1 ELSE t.m,
     d |-> IF t.d = Omitted THEN 1 ELSE t.d]
\* a written date with what is missing taken as the last of the period
LastOf(t) ==
    LET m == IF t.m = Omitted THEN 12 ELSE t.m
    IN [y |-> t.y, m |-> m, d |-> IF t.d = Omitted THEN LastDayOf(t.y, m) ELSE t.d]
\* parse_date returned these three dates (None: absent), in the format asked
ParsedIs(on, since, before) ==
    /\ parsed.kind = "returned"
    /\ parsed.on = Strftime(on, parsed.date_format)
    /\ parsed.since = Strftime(since, parsed.date_format)
    /\ parsed.before = Strftime(before, parsed.date_format)

\* ----------------------------------------------------------------- C14
\* C14: for a bare range 'D1 to D2' parse_date returns since = D1 with a
\* missing month or day taken as the first of the period, before = D2 with a
\* missing month or day taken as the last of the period (the right number of
\* days of that month and year), and on absent; '2012-04 to 2012-10' gives
\* since 2012-04-01 and before 2012-10-31.
C14_BareRange ==
    LET f == date_def.form IN
    (Called /\ InGrammar(f) /\ f.modifier = "" /\ f.to) =>
        ParsedIs(None, FirstOf(f.d1), LastOf(f.d2))

\* ----------------------------------------------------------------- C15
\* C15: without 'to', '>D' gives since = D (missing month and day 1) and
\* nothing else; '<D' gives before = D (missing month 12, missing day the
\* last day of the month) and nothing else; a bare year or year-month gives
\* since and before the first and the last day of it, on absent; a bare full
\* date gives on = D and nothing else.
C15_SingleDate ==
    LET f == date_def.form IN
    (Called /\ InGrammar(f) /\ ~f.to) =>
        IF f.modifier = ">" THEN ParsedIs(None, FirstOf(f.d1), None)
        ELSE IF f.modifier = "<" THEN ParsedIs(None, None, LastOf(f.d1))
        ELSE IF f.d1.d = Omitted THEN ParsedIs(None, FirstOf(f.d1), LastOf(f.d1))
        ELSE ParsedIs(f.d1, None, None)

\* '<2012' was parsed for the SEARCH criteria and gave BEFORE 31-Dec-2012
C15_Witness ==
    /\ date_def.text = <<"<", "2", "0", "1", "2">>
    /\ parsed.kind = "returned"
    /\ parsed.before = <<"3", "1", "-", "Dec", "-", "2", "0", "1", "2">>
    /\ parsed.on = None /\ parsed.since = None

\* ----------------------------------------------------------------- C16
\* "%Y-%m-%d" read as one number, to compare two dates in that format
YmdKey(s) == ToInt(SelectSeq(s, IsDigit))

\* C16: every result parse_date returns for a definition of the grammar
\* satisfies the DateRange invariant: with on set, since and before are both
\* absent; with since and before both set, since <= before.
C16_DateRangeInvariant ==
    (Called /\ InGrammar(date_def.form) /\ parsed.kind = "returned") =>
        /\ parsed.on # None => (parsed.since = None /\ parsed.before = None)
        /\ (parsed.since # None /\ parsed.before # None /\ parsed.date_format = "ymd")
              => YmdKey(parsed.since) <= YmdKey(parsed.before)

\* ----------------------------------------------------------------- C17
\* C17: for every string that is not of the grammar (a date followed by
\* other characters, a 'to' with no second date) parse_date fails with the
\* RuntimeWarning of an invalid date definition: it returns no result and
\* fails with no other error.
C17_InvalidRejected ==
    (Called /\ ~InGrammar(date_def.form)) => parsed.kind = "RuntimeWarning"

\* ----------------------------------------------------------------- C18
\* the configuration errors, by the message of the exception raised
ConfigErrors ==
    {"Missing host and login configuration", "Wrong size",
     "Date criteria not found", "Invalid date definition"}

\* C18: a configuration error (missing host or login, malformed size label,
\* malformed date definition, neither date nor 'all') is raised before any
\* connection attempt: when it has occurred no LOGIN, SELECT or other
\* protocol command has been issued.
C18_ConfigErrorsBeforeConnect ==
    outcome \in ConfigErrors => cmds = <<>>

\* ----------------------------------------------------------------- C19
\* after command i only the commands of __exit__ were issued
LastBeforeExit(i) ==
    \A k \in (i + 1)..Len(cmds) : cmds[k].op \in {"EXPUNGE", "CLOSE", "LOGOUT"}

\* C19: a non-OK status of SELECT or SEARCH aborts the run; a failure of a
\* per-message FETCH, APPEND or STORE (an error raised or a non-OK status) is
\* scoped to the message: no further command is issued for that message and
\* the run is not aborted by it, it goes on with the next candidate.
C19_FailureScoped ==
    \A i \in CmdIdx :
        /\ (cmds[i].op \in {"SELECT", "SEARCH"} /\ cmds[i].st # "OK") =>
              /\ pc \in {"exit", "done"}
              /\ outcome = "RuntimeWarning"
              /\ LastBeforeExit(i)
        /\ (cmds[i].uid # 0 /\ cmds[i].st # "OK") =>
              /\ \A k \in (i + 1)..Len(cmds) : cmds[k].uid # cmds[i].uid
              /\ LastBeforeExit(i) => outcome \in {"running", "finished"}

\* ----------------------------------------------------------------- C20
\* C20: a decode error confined to one part or one message never aborts the
\* run and leaves the content as it is: an attachment whose payload fails
\* base64 decoding is not extracted and is copied unchanged into the rebuilt
\* message; a message whose Date header is absent is skipped (nothing is
\* extracted from it, no APPEND and no STORE is issued for it) and the run
\* goes on with the remaining candidates.
C20_DecodeErrorsContained ==
    /\ \A p \in Walked :
         \A pi \in Attachments(p.uid) :
             LET part == PartsOf(p.uid)[pi] IN
             (DecodeFails(part) /\ ~part.marked) =>
                 /\ \A i \in ExtractionsOf(p.uid) : extractions[i].pi # pi
                 /\ \E k \in 1..Len(p.new_mail) : p.new_mail[k] = part
    /\ \A i \in CmdIdx :
         (cmds[i].op = "FETCH" /\ cmds[i].uid # 0 /\ cmds[i].st = "OK"
            /\ mailbox[cmds[i].uid].day = NoDate) =>
             /\ ExtractionsOf(cmds[i].uid) = {}
             /\ ~Appended(cmds[i].uid) /\ ~Stored(cmds[i].uid)
             /\ LastBeforeExit(i) => outcome \in {"running", "finished"}

\* ------------------------------------------------- the IMAP UTF-7 codec
\* A string is here the sequence of its code points: 38 is '&', 45 is '-',
\* 61 is '=', 43 is '+', 44 is ',', 47 is '/'.

\* str.split(sep), and str.split(sep, 1) through First/Rest below
RECURSIVE Split(_, _)
Split(s, sep) ==
    IF \E i \in 1..Len(s) : s[i] = sep
    THEN LET i == CHOOSE j \in 1..Len(s) : s[j] = sep /\ \A k \in 1..(j - 1) : s[k] # sep
         IN <<SubSeq(s, 1, i - 1)>> \o Split(SubSeq(s, i + 1, Len(s)), sep)
    ELSE <<s>>

\* str.replace('&', '&-')
RECURSIVE EscapeAmp(_)
EscapeAmp(s) ==
    IF s = <<>> THEN <<>>
    ELSE (IF Head(s) = 38 THEN <<38, 45>> ELSE <<Head(s)>>) \o EscapeAmp(Tail(s))

\* str.encode('utf-16-be'): the bytes of the code units, surrogate pairs
\* above the basic plane
RECURSIVE Utf16be(_)
Utf16be(s) ==
    IF s = <<>> THEN <<>>
    ELSE LET c == Head(s)
             units == IF c < 65536 THEN <<c>>
                      ELSE <<55296 + ((c - 65536) \div 1024), 56320 + ((c - 65536) % 1024)>>
             bytes == IF Len(units) = 1 THEN <<c \div 256, c % 256>>
                      ELSE <<units[1] \div 256, units[1] % 256,
                             units[2] \div 256, units[2] % 256>>
         IN bytes \o Utf16be(Tail(s))

\* the base64 alphabet: A-Z, a-z, 0-9, '+', '/'
B64Char(n) ==
    IF n < 26 THEN 65 + n
    ELSE IF n < 52 THEN 97 + (n - 26)
    ELSE IF n < 62 THEN 48 + (n - 52)
    ELSE IF n = 62 THEN 43 ELSE 47

\* base64.b64encode
RECURSIVE B64encode(_)
B64encode(b) ==
    IF b = <<>> THEN <<>>
    ELSE IF Len(b) = 1
    THEN <<B64Char(b[1] \div 4), B64Char((b[1] % 4) * 16), 61, 61>>
    ELSE IF Len(b) = 2
    THEN <<B64Char(b[1] \div 4), B64Char((b[1] % 4) * 16 + (b[2] \div 16)),
           B64Char((b[2] % 16) * 4), 61>>
    ELSE <<B64Char(b[1] \div 4), B64Char((b[1] % 4) * 16 + (b[2] \div 16)),
           B64Char((b[2] % 16) * 4 + (b[3] \div 64)), B64Char(b[3] % 64)>>
         \o B64encode(SubSeq(b, 4, Len(b)))

\* str.rstrip('=')
RECURSIVE Rstrip(_)
Rstrip(s) == IF s # <<>> /\ s[Len(s)] = 61 THEN Rstrip(SubSeq(s, 1, Len(s) - 1)) ELSE s

\* '&' + b64encode(unipart.encode('utf-16-be')).decode('ascii').rstrip('=') + '-'
Shifted(unipart) == <<38>> \o Rstrip(B64encode(Utf16be(unipart))) \o <<45>>

\* the loop of lines 745-752 from character i on
RECURSIVE EncodeFrom(_, _, _, _)
EncodeFrom(s, i, unipart, out) ==
    IF i > Len(s)
    THEN IF unipart # <<>> THEN out \o Shifted(unipart) ELSE out
    ELSE IF 32 <= s[i] /\ s[i] <= 127
    THEN EncodeFrom(s, i + 1, <<>>,
                    (IF unipart # <<>> THEN out \o Shifted(unipart) ELSE out) \o <<s[i]>>)
    ELSE EncodeFrom(s, i + 1, unipart \o <<s[i]>>, out)

\* imaputf7encode without the replace of line 743
imaputf7encode_NoEscape(s) == EncodeFrom(s, 1, <<>>, <<>>)

\* lines 741-755
imaputf7encode(s) == EncodeFrom(EscapeAmp(s), 1, <<>>, <<>>)

\* a string a function returned
Value(s) == [kind |-> "returned", value |-> s]

\* the value of a base64 character, -1 outside the alphabet (after altchars
\* '+,' were translated to '+/': ',' counts as '/', and '/' itself stays)
SextetOf(ch) ==
    IF 65 <= ch /\ ch <= 90 THEN ch - 65
    ELSE IF 97 <= ch /\ ch <= 122 THEN ch - 97 + 26
    ELSE IF 48 <= ch /\ ch <= 57 THEN ch - 48 + 52
    ELSE IF ch = 43 THEN 62
    ELSE IF ch \in {44, 47} THEN 63
    ELSE -1

\* the bytes of the groups of four characters, '=' closing the last group
RECURSIVE B64bytes(_)
B64bytes(b) ==
    IF b = <<>> THEN <<>>
    ELSE LET s1 == SextetOf(b[1])
             s2 == SextetOf(b[2])
             s3 == SextetOf(b[3])
             s4 == SextetOf(b[4])
             b1 == s1 * 4 + (s2 \div 16)
             b2 == (s2 % 16) * 16 + (s3 \div 4)
             b3 == (s3 % 4) * 64 + s4
         IN (IF b[3] = 61 THEN <<b1>> ELSE IF b[4] = 61 THEN <<b1, b2>> ELSE <<b1, b2, b3>>)
            \o B64bytes(SubSeq(b, 5, Len(b)))

\* bytes.decode('utf-16-be') of an even number of bytes
RECURSIVE Utf16units(_)
Utf16units(b) ==
    IF b = <<>> THEN <<>> ELSE <<b[1] * 256 + b[2]>> \o Utf16units(SubSeq(b, 3, Len(b)))

IsHigh(u) == 55296 <= u /\ u <= 56319
IsLow(u) == 56320 <= u /\ u <= 57343

\* the code units pair up: no surrogate stands alone
RECURSIVE WellPaired(_)
WellPaired(u) ==
    IF u = <<>> THEN TRUE
    ELSE IF IsHigh(u[1]) THEN Len(u) >= 2 /\ IsLow(u[2]) /\ WellPaired(SubSeq(u, 3, Len(u)))
    ELSE ~IsLow(u[1]) /\ WellPaired(Tail(u))

RECURSIVE CodePoints(_)
CodePoints(u) ==
    IF u = <<>> THEN <<>>
    ELSE IF IsHigh(u[1])
    THEN <<65536 + (u[1] - 55296) * 1024 + (u[2] - 56320)>> \o CodePoints(SubSeq(u, 3, Len(u)))
    ELSE <<u[1]>> \o CodePoints(Tail(u))

\* lines 717-720: pad, b64decode(altchars='+,', validate=True), utf-16-be
b64padanddecode(b) ==
    LET padded == b \o [i \in 1..((4 - (Len(b) % 4)) % 4) |-> 61]
        npad == Len(padded) - Len(Rstrip(padded))
        data == Rstrip(padded)
    IN IF npad > 2 \/ \E i \in 1..Len(data) : SextetOf(data[i]) = -1
       THEN Raised("binascii.Error")
       ELSE LET bytes == B64bytes(padded) IN
            IF Len(bytes) % 2 # 0 \/ ~WellPaired(Utf16units(bytes))
            THEN Raised("UnicodeDecodeError")
            ELSE Value(CodePoints(Utf16units(bytes)))

\* the loop of lines 729-736 from element i of lst on
RECURSIVE DecodeFrom(_, _, _)
DecodeFrom(lst, i, out) ==
    IF i > Len(lst) THEN Value(out)
    ELSE LET parts == Split(lst[i], 45) IN
         IF Len(parts) < 2 THEN Raised("ValueError")      \* u, a = e.split('-', 1)
         ELSE LET u == parts[1]
                  a == SubSeq(lst[i], Len(u) + 2, Len(lst[i]))
                  shifted == b64padanddecode(u)
              IN IF u = <<>> THEN DecodeFrom(lst, i + 1, out \o <<38>> \o a)
                 ELSE IF shifted.kind # "returned" THEN shifted
                 ELSE DecodeFrom(lst, i + 1, out \o shifted.value \o a)

\* lines 723-738
imaputf7decode(s) == DecodeFrom(Split(s, 38), 2, Split(s, 38)[1])

\* ------------------------------------------------ the folder names tried
\* Longest folder name.
MaxName == 3

\* '&', '-', 'a', e acute, U+03F0 (a '/' in its base64), U+1F600 (outside
\* the basic plane)
NameChars == {38, 45, 97, 233, 1008, 128512}
FolderNames == UNION { [1..n -> NameChars] : n \in 0..MaxName }

InitCodec ==
    /\ folder \in FolderNames
    /\ encoded = Pending
    /\ decoded = Pending
    /\ date_def = NoDef
    /\ parsed = Pending
    /\ cfg = DefaultConfig
    /\ mailbox = <<>>
    /\ imap_state = "NONAUTH"
    /\ pc = "start"
    /\ dates = Unbound
    /\ to_fetch = <<>>
    /\ cur = NoCur
    /\ files = {}
    /\ extracted_nb = 0
    /\ extracted_from_nb = 0
    /\ extracted_size = 0
    /\ cmds = <<>>
    /\ extractions = <<>>
    /\ processed = <<>>
    /\ outcome = "running"
    /\ FilterIdle
    /\ ScanIdle
    /\ first = NoRun

\* line 294 (and 582): the folder name is encoded for the server
Encode ==
    /\ encoded = Pending
    /\ encoded' = Value(imaputf7encode(folder))
    /\ UNCHANGED <<folder, decoded, date_def, parsed, session, filter, scan, first>>

\* line 162: a name the server sent is decoded
Decode ==
    /\ encoded # Pending
    /\ decoded = Pending
    /\ decoded' = imaputf7decode(encoded.value)
    /\ UNCHANGED <<folder, encoded, date_def, parsed, session, filter, scan, first>>

NextCodec == Encode \/ Decode

SpecCodec == InitCodec /\ [][NextCodec]_vars

\* ----------------------------------------------------------------- C21
\* C21: for every folder name s over printable ASCII ('&' and '-' included)
\* and non-ASCII characters, imaputf7decode(imaputf7encode(s)) = s.
C21_RoundTrip ==
    decoded # Pending => decoded = Value(folder)

\* 'a', e acute, '&', encoded as a&AOk-&- and decoded again
C21_Witness ==
    /\ folder = <<97, 233, 38>>
    /\ encoded = Value(<<97, 38, 65, 79, 107, 45, 38, 45>>)
    /\ decoded # Pending

\* ----------------------------------------------------------------- C22
\* C22: with fetch_all set and no date definition (SEARCH issued with no date
\* criterion, `dates` never assigned), when the server answers OK to every
\* command and every message has a Date header, the run finishes normally
\* and every message fetched was processed with no date filter applied.
C22_FetchAllRuns ==
    (/\ pc = "done"
     /\ dates = Unbound
     /\ HasCmd("SEARCH", 0)
     /\ \A i \in CmdIdx : cmds[i].st = "OK"
     /\ \A u \in 1..Len(mailbox) : mailbox[u].day # NoDate) =>
        /\ outcome \in {"finished", "exit0"}
        /\ \A i \in CmdIdx :
             (cmds[i].op = "FETCH" /\ cmds[i].uid # 0) =>
                 \E p \in Entries : p.uid = cmds[i].uid /\ p.how # "date_skip"

\* --------------------------------- one message against a date definition
\* lines 307-315: the criteria, from parse_date's result in the "imap" format
DateCrit(imap) ==
    (IF imap.on # None THEN <<[key |-> "ON", date |-> imap.on]>> ELSE <<>>)
    \o (IF imap.since # None THEN <<[key |-> "SINCE", date |-> imap.since]>> ELSE <<>>)
    \o (IF imap.before # None THEN <<[key |-> "BEFORE", date |-> imap.before]>> ELSE <<>>)

\* a day as one number, to compare days
DayKey(dt) == dt.y * 10000 + dt.m * 100 + dt.d

\* the server's reading of a criterion's date, dd-Mon-yyyy
ImapDate(s) ==
    [y |-> ToInt(SubSeq(s, 6, 9)),
     m |-> CHOOSE m \in 1..12 : MonthAbbr[m] = s[4],
     d |-> ToInt(SubSeq(s, 1, 2))]

\* the server's SEARCH (line 321): ON is that day, SINCE is on or after the
\* date, BEFORE is earlier than the date; all criteria must hold
ServerSelects(date_crit, day) ==
    \A i \in 1..Len(date_crit) :
        LET c == date_crit[i] IN
        IF c.key = "ON" THEN DayKey(day) = DayKey(ImapDate(c.date))
        ELSE IF c.key = "SINCE" THEN DayKey(day) >= DayKey(ImapDate(c.date))
        ELSE DayKey(day) < DayKey(ImapDate(c.date))

\* the order of Python's str on digits and '-'
Ord(c) == IF IsDigit(c) THEN 48 + CharVal(c) ELSE 45
RECURSIVE StrLeq(_, _)
StrLeq(a, b) ==
    IF a = <<>> THEN TRUE
    ELSE IF b = <<>> THEN FALSE
    ELSE IF Ord(a[1]) # Ord(b[1]) THEN Ord(a[1]) < Ord(b[1])
    ELSE StrLeq(Tail(a), Tail(b))

\* lines 446-457: date_ok, from parse_date's result in the "ymd" format
LocalDateOk(ymd, check_date) ==
    IF ymd.on # None THEN check_date = ymd.on
    ELSE IF ymd.since # None /\ ymd.before = None THEN StrLeq(ymd.since, check_date)
    ELSE IF ymd.before # None /\ ymd.since = None THEN StrLeq(check_date, ymd.before)
    ELSE IF ymd.since # None /\ ymd.before # None
         THEN StrLeq(ymd.since, check_date) /\ StrLeq(check_date, ymd.before)
    ELSE FALSE

\* lines 304-321 and 445-457 for one message dated `day`, on the server and
\* in its Date header
Judge(text, day) ==
    LET imap == parse_date(text, "imap")
        ymd == parse_date(text, "ymd")
    IN IF imap.kind # "returned" THEN imap
       ELSE [kind |-> "judged", dates |-> ymd,
             check_date |-> Strftime(day, "ymd"),
             selected |-> ServerSelects(DateCrit(imap), day),
             date_ok |-> LocalDateOk(ymd, Strftime(day, "ymd"))]

\* the days a message is dated: first, last and another day of a month
MailDates ==
    { Date(y, m, d) : y \in Years, m \in Months, d \in 1..31 } \cap
    { dt \in [y : Years, m : Months, d : 1..31] : dt.d \in {1, 21, DaysIn(dt.y, dt.m)} }

\* the definitions written as the grammar wants them
WellFormed == { dd \in DateDefinitions :
                  dd.form.trail = 0 /\ (dd.form.to <=> dd.form.d2 # NoSecond) }

InitSearch ==
    /\ date_def \in WellFormed
    /\ mail_date \in MailDates
    /\ verdict = Pending
    /\ parsed = Pending
    /\ CodecIdle
    /\ ScanIdle
    /\ first = NoRun
    /\ cfg = DefaultConfig
    /\ mailbox = <<>>
    /\ imap_state = "NONAUTH"
    /\ pc = "start"
    /\ dates = Unbound
    /\ to_fetch = <<>>
    /\ cur = NoCur
    /\ files = {}
    /\ extracted_nb = 0
    /\ extracted_from_nb = 0
    /\ extracted_size = 0
    /\ cmds = <<>>
    /\ extractions = <<>>
    /\ processed = <<>>
    /\ outcome = "running"

SearchAndFilter ==
    /\ verdict = Pending
    /\ verdict' = Judge(date_def.text, mail_date)
    /\ UNCHANGED <<mail_date, date_def, parsed, session, codec, scan, first>>

NextSearch == SearchAndFilter

SpecSearch == InitSearch /\ [][NextSearch]_vars


\* ----------------------------------------------------------------- C23
\* the message's day lies in the period a written year or year-month names
Judged == verdict # Pending /\ verdict.kind = "judged"
InPeriod(t, day) ==
    DayKey(FirstOf(t)) <= DayKey(day) /\ DayKey(day) <= DayKey(LastOf(t))
\* C23: for a definition naming a year or a year-month, every message dated
\* within that period, its last day included, is selected by the SEARCH
\* criteria built from the compiled bounds (SINCE on or after, BEFORE strictly
\* earlier) and passes the local date filter.
C23_PeriodSelected ==
    LET f == date_def.form IN
    (verdict # Pending /\ f.modifier = "" /\ ~f.to /\ f.d1.d = Omitted
        /\ InPeriod(f.d1, mail_date)) =>
        (Judged /\ verdict.selected /\ verdict.date_ok)


\* ------------------------------------------- the BODYSTRUCTURE responses
\* A response text is a sequence of characters; "A" stands for the quoted
\* word "attachment" and "x" for any other piece of a structure description.
MaxRecs == 2
MaxFrags == 3

\* what imaplib hands over: a line of bytes, or a pair (text, literal) when
\* the server sent a literal, the record going on in the next element
Bytes(text) == [kind |-> "bytes", text |-> text]
Pair(text, literal) == [kind |-> "tuple", text |-> text, literal |-> literal]

\* the records a server sends: record number n carries the identifier n and
\* is cut after each literal; every fragment holds an attachment word or not
Records == UNION { [1..k -> BOOLEAN] : k \in 1..MaxFrags }
UidText(n) == <<DigitChar[n + 1]>>
Fragment(n, rec, i) ==
    LET head == IF i = 1 THEN UidText(n) \o <<" ", "(">> ELSE <<" ">>
        text == head \o (IF rec[i] THEN <<"A">> ELSE <<"x">>)
    IN IF i < Len(rec) THEN Pair(text \o <<" ">>, <<"f">>) ELSE Bytes(text \o <<")">>)
Response(n, rec) == [i \in 1..Len(rec) |-> Fragment(n, rec, i)]
RECURSIVE Responses(_, _)
Responses(recs, n) ==
    IF n > Len(recs) THEN <<>> ELSE Response(n, recs[n]) \o Responses(recs, n + 1)
FetchData ==
    { Responses(recs, 1) : recs \in UNION { [1..r -> Records] : r \in 1..MaxRecs } }

\* lines 351-355: a pair becomes text, the literal between quotes
Flatten(structure) ==
    IF structure.kind = "tuple"
    THEN structure.text \o <<"\"">> \o structure.literal \o <<"\"">>
    ELSE structure.text

EndsWith(text, c) == Len(text) > 0 /\ text[Len(text)] = c

\* line 369: the regular expression finds a quoted attachment word
HasAttachmentWord(text) == \E i \in 1..Len(text) : text[i] = "A"

\* line 376: structure.split(b' ')[0]
RECURSIVE FirstField(_)
FirstField(text) ==
    IF text = <<>> \/ Head(text) = " " THEN <<>>
    ELSE <<Head(text)>> \o FirstField(Tail(text))

\* line 358: previous_structure = b''+structure
Buffer(previous_structure, structure) == structure

\* lines 347-383, from element i of fetch_data on
RECURSIVE ScanFrom(_, _, _, _, _)
ScanFrom(data, i, merge_previous, previous_structure, found) ==
    IF i > Len(data) THEN found
    ELSE LET structure == Flatten(data[i]) IN
         IF ~EndsWith(structure, ")")
         THEN ScanFrom(data, i + 1, TRUE, Buffer(previous_structure, structure), found)
         ELSE LET whole == IF merge_previous THEN previous_structure \o structure
                           ELSE structure
                  uid == FirstField(whole)
              IN ScanFrom(data, i + 1, FALSE, previous_structure,
                          IF HasAttachmentWord(whole) /\ uid # <<>>
                          THEN Append(found, uid) ELSE found)

InitScan ==
    /\ fetch_data \in FetchData
    /\ scanned = Pending
    /\ date_def = NoDef
    /\ parsed = Pending
    /\ CodecIdle
    /\ FilterIdle
    /\ first = NoRun
    /\ cfg = DefaultConfig
    /\ mailbox = <<>>
    /\ imap_state = "NONAUTH"
    /\ pc = "start"
    /\ dates = Unbound
    /\ to_fetch = <<>>
    /\ cur = NoCur
    /\ files = {}
    /\ extracted_nb = 0
    /\ extracted_from_nb = 0
    /\ extracted_size = 0
    /\ cmds = <<>>
    /\ extractions = <<>>
    /\ processed = <<>>
    /\ outcome = "running"

Scan ==
    /\ scanned = Pending
    /\ scanned' = [kind |-> "scanned",
                   to_fetch |-> ScanFrom(fetch_data, 1, FALSE, <<>>, <<>>)]
    /\ UNCHANGED <<fetch_data, date_def, parsed, session, codec, filter, first>>

NextScan == Scan

SpecScan == InitScan /\ [][NextScan]_vars

\* ----------------------------------------------------------------- C24
\* the records of the response, each with the elements it was sent in
RECURSIVE RecordsOf(_, _, _)
RecordsOf(data, i, open) ==
    IF i > Len(data) THEN <<>>
    ELSE IF data[i].kind = "tuple" THEN RecordsOf(data, i + 1, Append(open, data[i]))
    ELSE <<Append(open, data[i])>> \o RecordsOf(data, i + 1, <<>>)
\* a record's fragments, concatenated in order
RECURSIVE Concat(_)
Concat(frags) ==
    IF frags = <<>> THEN <<>> ELSE Flatten(Head(frags)) \o Concat(Tail(frags))
\* the identifiers of the records that show an attachment word, in order
RECURSIVE Expected(_)
Expected(recs) ==
    IF recs = <<>> THEN <<>>
    ELSE (IF HasAttachmentWord(Concat(Head(recs)))
          THEN <<FirstField(Concat(Head(recs)))>> ELSE <<>>)
         \o Expected(Tail(recs))
\* C24: a structure record split over k >= 2 consecutive response lines is
\* assembled as the concatenation of all k fragments in order before the
\* attachment test and the identifier extraction: the attachment words of
\* every fragment are seen and the identifier reported is the one at the head
\* of the first fragment.
C24_AllFragmentsAssembled ==
    scanned # Pending =>
        scanned.to_fetch = Expected(RecordsOf(fetch_data, 1, <<>>))

\* ----------------------------------------------------------------- C25
\* the day is not the day `on`, or lies outside a bound that is present
OutsideDates(d, day) ==
    \/ d[1] # 0 /\ day # d[1]
    \/ d[2] # 0 /\ day < d[2]
    \/ d[3] # 0 /\ day > d[3]
\* the candidate messages the filter has to skip
ToSkip ==
    { u \in 1..Len(mailbox) :
        /\ dates # Unbound
        /\ \E i \in CmdIdx : cmds[i] = Cmd("FETCH", u, "OK")
        /\ mailbox[u].day # NoDate
        /\ OutsideDates(dates, mailbox[u].day) }
Copies == { u \in 1..Len(mailbox) : mailbox[u].src # 0 }
\* C26: the APPEND of a rebuilt message preserves the original's flags: the
\* flag list passed to APPEND is exactly the set of flags fetched for the
\* original message (empty when it had none), for every message replaced.
C26_FlagsPreserved ==
    \A u \in Copies :
        mailbox[u].flags = mailbox[mailbox[u].src].flags \ {"\\Deleted"}
C26_Witness ==
    /\ pc = "done"
    /\ \E u \in Copies : mailbox[u].flags = {"\\Flagged"}
    /\ \E u \in Copies : mailbox[u].flags = {}


\* ----------------------------------------------------------------- C27
\* the leaf parts of the original message uid
Leaves(uid) == { pi \in 1..Len(PartsOf(uid)) : ~IsMultipart(PartsOf(uid)[pi]) }
\* the rebuilt message holds the part: as it was, inside the copied
\* multipart/alternative container, or as the stub of its extracted file
InRebuilt(new_mail, uid, pi) ==
    LET part == PartsOf(uid)[pi]
        held == { new_mail[j] : j \in 1..Len(new_mail) }
    IN \/ part \in held
       \/ part.child /\ \E c \in held : c.ctype = "multipart/alternative"
       \/ \E i \in ExtractionsOf(uid), c \in held :
            extractions[i].pi = pi /\ c.stub /\ c.url = extractions[i].file
\* C27: no content is lost by a replacement: for every message whose rebuilt
\* version is appended, each leaf part of the original is present in the
\* rebuilt message (directly, inside the copied multipart/alternative
\* container, or as a stub) or written to an extracted file; in particular a
\* text/plain or text/html leaf that is not a child of the container is not
\* dropped by the skip of up to two text leaves.
C27_NoContentLost ==
    \A p \in Walked :
        Appended(p.uid) =>
            \A pi \in Leaves(p.uid) :
                InRebuilt(p.new_mail, p.uid, pi) \/ WrittenFor(p.uid, pi)


\* ------------------------------------------------------ one run, then another
\* the options of a run that replaces messages
ReplacingConfigs == { c \in Configs : ~c.debug /\ ~c.dry_run /\ ~c.extract_only }

InitTwice ==
    /\ cfg \in ReplacingConfigs
    /\ mailbox \in Mailboxes
    /\ imap_state = "NONAUTH"
    /\ pc = "start"
    /\ dates = Unbound
    /\ to_fetch = <<>>
    /\ cur = NoCur
    /\ files = {}
    /\ extracted_nb = 0
    /\ extracted_from_nb = 0
    /\ extracted_size = 0
    /\ cmds = <<>>
    /\ extractions = <<>>
    /\ processed = <<>>
    /\ outcome = "running"
    /\ date_def = NoDef
    /\ parsed = Pending
    /\ CodecIdle
    /\ FilterIdle
    /\ ScanIdle
    /\ first = NoRun

\* what is kept of a run that came to its end: its date definition, the
\* directory it left, and whether the server answered OK to every command
RunOf ==
    [kind |-> "run", dates |-> dates, files |-> files,
     all_ok |-> \A i \in 1..Len(cmds) : cmds[i].st = "OK"]

\* the program is started again, with the same options, on the same folder
\* and the same directory: cli() -> main() -> __init__ (lines 100-150)
Restart ==
    /\ pc = "done"
    /\ first = NoRun
    /\ outcome = "finished"
    /\ \A i \in 1..Len(cmds) : cmds[i].op \in {"APPEND", "STORE"} => cmds[i].st = "OK"
    /\ first' = RunOf
    /\ pc' = "start"
    /\ imap_state' = "NONAUTH"
    /\ dates' = Unbound
    /\ to_fetch' = <<>>
    /\ cur' = NoCur
    /\ extracted_nb' = 0
    /\ extracted_from_nb' = 0
    /\ extracted_size' = 0
    /\ cmds' = <<>>
    /\ extractions' = <<>>
    /\ processed' = <<>>
    /\ outcome' = "running"
    /\ UNCHANGED <<cfg, mailbox, files, date_def, parsed, codec, filter, scan>>

NextTwice == Next \/ Restart

SpecTwice == InitTwice /\ [][NextTwice]_vars


\* ----------------------------------------------------------------- C28
\* this is the run that follows a completed run
SecondRun == first # NoRun
\* the files this run wrote
Rewritten == { i \in 1..Len(extractions) : extractions[i].wrote }
NoReplacement == \A i \in CmdIdx : cmds[i].op \notin {"APPEND", "STORE"}
\* C28 as stated: after a run that is not debug, dry-run or extract_only has
\* completed with every APPEND and STORE successful, an immediately following
\* run with the same parameters (any flagged_action, thunderbird mode on or
\* off) on the same folder writes no file and issues no APPEND and no STORE.
C28_IdempotentAsStated ==
    SecondRun => files = first.files /\ Rewritten = {} /\ NoReplacement
\* C28 amended: after such a run in which the server answered OK to every
\* command, the following run issues no APPEND and no STORE; it writes no
\* file under 'skip' and 'detach', and under 'extract' the only files it
\* writes are those of flagged messages, which are left on the server as
\* they were.
C28_Idempotent ==
    (SecondRun /\ first.all_ok) =>
        /\ NoReplacement
        /\ cfg.flagged_action # "extract" => files = first.files /\ Rewritten = {}
        /\ \A i \in Rewritten : "\\Flagged" \in mailbox[extractions[i].uid].flags
C28_Witness ==
    /\ SecondRun
    /\ first.all_ok
    /\ pc = "done"
    /\ outcome = "finished"
    /\ cfg.flagged_action = "detach"
    /\ first.files # {}
    /\ \E p \in Walked : mailbox[p.uid].src # 0 /\ "\\Flagged" \in mailbox[p.uid].flags
    /\ \A i \in CmdIdx : cmds[i].st = "OK"


\* ----------------------------------------------------------------- C29
\* the session is over and was one that replaces messages
Replacing == ~cfg.debug /\ ~cfg.dry_run /\ ~cfg.extract_only
\* the rebuilt copies of message uid that the folder holds
CopiesOf(uid) == { c \in Copies : mailbox[c].src = uid /\ mailbox[c].exists }
StoredOk(uid) == \E i \in CmdIdx : cmds[i] = Cmd("STORE", uid, "OK")
====
